---------------------------- MODULE Spec2Model ----------------------------
(***************************************************************************)
(* Model of the parsing-and-normalisation pipeline of the Twinkle Eval     *)
(* Analyzer (src/app.py): _decode_bytes_to_text, read_twinkle_doc,         *)
(* extract_records and load_all.                                           *)
(*                                                                         *)
(* Four specifications share the variables below; each leaves the          *)
(* variables of the other three at their idle values.                      *)
(*   SpecDecode   the encoding loop of _decode_bytes_to_text               *)
(*   SpecRead     read_twinkle_doc on a text                               *)
(*   SpecExtract  extract_records on a document                            *)
(*   SpecLoad     the per-file loop of load_all                            *)
(*                                                                         *)
(* Conventions.  A text (a Python str) is a sequence of code points.  A    *)
(* JSON text is a sequence of tokens: punctuation, white space, and whole  *)
(* serialised values named by a token.  A Python float is an exact         *)
(* fraction <<n, d>> in lowest terms, or the non-finite NaN.  An exception *)
(* is the name of its Python class.                                        *)
(***************************************************************************)
EXTENDS Integers, Sequences, FiniteSets, TLC

VARIABLES
    dec_b,      \* _decode_bytes_to_text: the argument b
    dec_i,      \* index of the encoding the for loop is at (7: loop exhausted)
    dec_pc,     \* "idle" | "loop" | "returned" | "raised"
    dec_ret,    \* the returned text
    rd_text,    \* read_twinkle_doc: the text read from the file
    rd_pc,      \* "idle" | "start" | "done"
    rd_out,     \* outcome of read_twinkle_doc
    ex_doc,     \* extract_records: the argument doc
    ex_pc,      \* "idle" | "start" | "done"
    ex_out,     \* outcome of extract_records
    files,      \* load_all: the argument files
    ld_i,       \* index of the file the for loop is at
    ld_pc,      \* "idle" | "loop" | "returned" | "raised"
    frames,     \* the list frames (one sequence of rows per appended DataFrame)
    meta,       \* the dict meta: source_label -> avg_map
    diags,      \* the st.error calls made so far: sequence of file names
    ld_ret      \* the returned pair

vars == <<dec_b, dec_i, dec_pc, dec_ret, rd_text, rd_pc, rd_out,
          ex_doc, ex_pc, ex_out, files, ld_i, ld_pc, frames, meta, diags, ld_ret>>

decVars == <<dec_b, dec_i, dec_pc, dec_ret>>
rdVars == <<rd_text, rd_pc, rd_out>>
exVars == <<ex_doc, ex_pc, ex_out>>
ldVars == <<files, ld_i, ld_pc, frames, meta, diags, ld_ret>>

\* The values of a specification's variables while another one runs.
NoOutcome == [kind |-> "none"]

DecIdle == dec_b = <<>> /\ dec_i = 0 /\ dec_pc = "idle" /\ dec_ret = <<>>
RdIdle == rd_text = <<>> /\ rd_pc = "idle" /\ rd_out = NoOutcome
ExIdle == ex_doc = NoOutcome /\ ex_pc = "idle" /\ ex_out = NoOutcome
LdIdle ==
    /\ files = <<>> /\ ld_i = 0 /\ ld_pc = "idle"
    /\ frames = <<>> /\ meta = <<>> /\ diags = <<>> /\ ld_ret = NoOutcome

\* ----- generic helpers ---------------------------------------------------

\* All sequences over S of length at most n.
SeqsUpTo(S, n) == UNION {[1..k -> S] : k \in 0..n}

RECURSIVE Gcd(_, _)
Gcd(a, b) == IF b = 0 THEN a ELSE Gcd(b, a % b)

RECURSIVE SumSeq(_)
SumSeq(s) == IF s = <<>> THEN 0 ELSE Head(s) + SumSeq(Tail(s))

RECURSIVE Flatten(_)
Flatten(ss) == IF ss = <<>> THEN <<>> ELSE Head(ss) \o Flatten(Tail(ss))

Range(s) == {s[k] : k \in 1..Len(s)}

\* ----- _decode_bytes_to_text (src/app.py 17-23) --------------------------

\* Largest length of a byte sequence handed to _decode_bytes_to_text.
MaxBytes == 4

\* The bytes the inputs are built from: 'A'; A4, a UTF-8 continuation byte
\* and a Big5 lead/trail byte; D8 and DC, UTF-8 two-byte leads, the high
\* bytes of UTF-16 high and low surrogates, Big5 lead/trail bytes; F9, a
\* lead byte of the CP950 extension rows; FE and FF, the byte order mark
\* bytes, valid in no UTF-8 position.  No byte E0..F4 occurs, so the 3- and
\* 4-byte forms of UTF-8 never start.
ByteAlphabet == {65, 164, 216, 220, 249, 254, 255}

\* The tuple of line 18.
Encodings == <<"utf-8", "utf-16", "utf-16le", "utf-16be", "big5", "cp950">>

DecOk(out) == [ok |-> TRUE, out |-> out, exc |-> "none"]
DecFail == [ok |-> FALSE, out |-> <<>>, exc |-> "UnicodeDecodeError"]
DecCons(c, r) == IF r.ok THEN DecOk(<<c>> \o r.out) ELSE r

\* bytes.decode("utf-8", errors) from position k on: errors="strict" raises
\* at the first malformed byte, errors="ignore" drops it and goes on.
RECURSIVE Utf8From(_, _, _)
Utf8From(b, k, ignore) ==
    IF k > Len(b) THEN DecOk(<<>>)
    ELSE IF b[k] < 128 THEN DecCons(b[k], Utf8From(b, k + 1, ignore))
    ELSE IF /\ b[k] \in 194..223
            /\ k + 1 <= Len(b)
            /\ b[k + 1] \in 128..191
         THEN DecCons((b[k] - 192) * 64 + (b[k + 1] - 128), Utf8From(b, k + 2, ignore))
    ELSE IF ignore THEN Utf8From(b, k + 1, ignore)
    ELSE DecFail

\* The 16-bit code units of b in the given byte order.
Utf16Units(b, bigEndian) ==
    [k \in 1..(Len(b) \div 2) |->
        IF bigEndian THEN b[2 * k - 1] * 256 + b[2 * k]
                     ELSE b[2 * k] * 256 + b[2 * k - 1]]

\* Code units to code points: a high surrogate must be followed by a low
\* one, a low surrogate may not stand alone.
RECURSIVE Utf16FromUnits(_, _)
Utf16FromUnits(u, k) ==
    IF k > Len(u) THEN DecOk(<<>>)
    ELSE IF u[k] \in 55296..56319
         THEN IF k + 1 <= Len(u) /\ u[k + 1] \in 56320..57343
              THEN DecCons(65536 + (u[k] - 55296) * 1024 + (u[k + 1] - 56320),
                           Utf16FromUnits(u, k + 2))
              ELSE DecFail
    ELSE IF u[k] \in 56320..57343 THEN DecFail
    ELSE DecCons(u[k], Utf16FromUnits(u, k + 1))

\* bytes.decode("utf-16le") / ("utf-16be"): a byte order mark is an
\* ordinary character; an odd length is truncated data.
DecodeUtf16Fixed(b, bigEndian) ==
    IF Len(b) % 2 # 0 THEN DecFail
    ELSE Utf16FromUnits(Utf16Units(b, bigEndian), 1)

\* bytes.decode("utf-16"): a leading byte order mark selects the byte
\* order and is dropped; without one the order is little endian.
DecodeUtf16(b) ==
    IF Len(b) >= 2 /\ b[1] = 255 /\ b[2] = 254
    THEN DecodeUtf16Fixed(SubSeq(b, 3, Len(b)), FALSE)
    ELSE IF Len(b) >= 2 /\ b[1] = 254 /\ b[2] = 255
    THEN DecodeUtf16Fixed(SubSeq(b, 3, Len(b)), TRUE)
    ELSE DecodeUtf16Fixed(b, FALSE)

\* The Big5 mapping of the pair lead, trail restricted to ByteAlphabet
\* (0: unmapped).
Big5Map(lead, trail) ==
    CASE lead = 164 /\ trail = 65 -> 20057
      [] lead = 164 /\ trail = 164 -> 20013
      [] lead = 164 /\ trail = 216 -> 23610
      [] lead = 164 /\ trail = 220 -> 24319
      [] lead = 164 /\ trail = 249 -> 29255
      [] lead = 164 /\ trail = 254 -> 19993
      [] lead = 216 /\ trail = 65 -> 37367
      [] lead = 216 /\ trail = 164 -> 22563
      [] lead = 216 /\ trail = 216 -> 23600
      [] lead = 216 /\ trail = 220 -> 23873
      [] lead = 216 /\ trail = 249 -> 24761
      [] lead = 216 /\ trail = 254 -> 24852
      [] lead = 220 /\ trail = 65 -> 36582
      [] lead = 220 /\ trail = 164 -> 38594
      [] lead = 220 /\ trail = 216 -> 21967
      [] lead = 220 /\ trail = 220 -> 21960
      [] lead = 220 /\ trail = 249 -> 23221
      [] lead = 220 /\ trail = 254 -> 23238
      [] lead = 249 /\ trail = 65 -> 32411
      [] lead = 249 /\ trail = 164 -> 31991
      [] OTHER -> 0

\* CP950 is Big5 plus the extension rows F9D6..F9FE.
Cp950Map(lead, trail) ==
    CASE lead = 249 /\ trail = 216 -> 35023
      [] lead = 249 /\ trail = 220 -> 23290
      [] lead = 249 /\ trail = 249 -> 9552
      [] lead = 249 /\ trail = 254 -> 9619
      [] OTHER -> Big5Map(lead, trail)

\* bytes.decode("big5") / ("cp950") from position k on: a byte below 0x80
\* is ASCII, any other byte leads a two-byte character.
RECURSIVE DbcsFrom(_, _, _)
DbcsFrom(b, k, cp950) ==
    IF k > Len(b) THEN DecOk(<<>>)
    ELSE IF b[k] < 128 THEN DecCons(b[k], DbcsFrom(b, k + 1, cp950))
    ELSE IF k + 1 > Len(b) THEN DecFail
    ELSE LET c == IF cp950 THEN Cp950Map(b[k], b[k + 1]) ELSE Big5Map(b[k], b[k + 1])
         IN  IF c = 0 THEN DecFail ELSE DecCons(c, DbcsFrom(b, k + 2, cp950))

\* b.decode(enc) of line 20.
BytesDecode(b, enc) ==
    CASE enc = "utf-8" -> Utf8From(b, 1, FALSE)
      [] enc = "utf-16" -> DecodeUtf16(b)
      [] enc = "utf-16le" -> DecodeUtf16Fixed(b, FALSE)
      [] enc = "utf-16be" -> DecodeUtf16Fixed(b, TRUE)
      [] enc = "big5" -> DbcsFrom(b, 1, FALSE)
      [] enc = "cp950" -> DbcsFrom(b, 1, TRUE)

\* b.decode("utf-8", errors="ignore") of line 23.
BytesDecodeIgnore(b) == Utf8From(b, 1, TRUE).out

\* The classes "except Exception" (line 21) catches.
ExceptionClasses ==
    {"UnicodeDecodeError", "ValueError", "TypeError", "AttributeError",
     "UnboundLocalError", "LookupError"}

\* A handler narrowed to "except LookupError".
DecodeCatchesLookupOnly(exc) == exc = "LookupError"

\* Line 21: whether the handler catches exc.
DecodeCatches(exc) == exc \in ExceptionClasses

\* Lines 18-20: the encoding at hand decodes b; return the text.
DecodeReturn ==
    /\ dec_pc = "loop" /\ dec_i <= Len(Encodings)
    /\ BytesDecode(dec_b, Encodings[dec_i]).ok
    /\ dec_ret' = BytesDecode(dec_b, Encodings[dec_i]).out
    /\ dec_pc' = "returned"
    /\ UNCHANGED <<dec_b, dec_i>>

\* Lines 21-22: the decode raised; a caught exception moves the loop on,
\* any other leaves the function.
DecodeContinue ==
    /\ dec_pc = "loop" /\ dec_i <= Len(Encodings)
    /\ ~BytesDecode(dec_b, Encodings[dec_i]).ok
    /\ IF DecodeCatches(BytesDecode(dec_b, Encodings[dec_i]).exc)
       THEN dec_i' = dec_i + 1 /\ dec_pc' = "loop"
       ELSE dec_i' = dec_i /\ dec_pc' = "raised"
    /\ UNCHANGED <<dec_b, dec_ret>>

\* Line 23: every encoding failed.
DecodeFallback ==
    /\ dec_pc = "loop" /\ dec_i = Len(Encodings) + 1
    /\ dec_ret' = BytesDecodeIgnore(dec_b)
    /\ dec_pc' = "returned"
    /\ UNCHANGED <<dec_b, dec_i>>

InitDecode ==
    /\ dec_b \in SeqsUpTo(ByteAlphabet, MaxBytes)
    /\ dec_i = 1 /\ dec_pc = "loop" /\ dec_ret = <<>>
    /\ RdIdle /\ ExIdle /\ LdIdle

NextDecode ==
    \/ DecodeReturn /\ UNCHANGED <<rdVars, exVars, ldVars>>
    \/ DecodeContinue /\ UNCHANGED <<rdVars, exVars, ldVars>>
    \/ DecodeFallback /\ UNCHANGED <<rdVars, exVars, ldVars>>

SpecDecode == InitDecode /\ [][NextDecode]_vars

\* ----- read_twinkle_doc (src/app.py 25-48) -------------------------------

\* Largest length, in tokens, of a text handed to read_twinkle_doc.
MaxTextLen == 4

\* White space of str.strip and of JSON; "\n" is also the line boundary of
\* str.splitlines.
Whitespace == {" ", "\n"}

\* The complete documents (see DocOf).
DocTokens == {"D1", "D2", "D3", "D4", "D5"}

\* Serialised JSON values that fit in one token: N the value null; T, C, R
\* an object that lacks timestamp, config, dataset_results; the documents
\* but D2.
AtomTokens == {"N", "T", "C", "R"} \cup (DocTokens \ {"D2"})

\* The tokens of the texts of SpecRead.  D2a and D2b are the two halves of
\* the serialised document D2, cut where JSON allows white space: neither
\* half is a value on its own.  x is a character that starts no JSON value.
TextAlphabet == Whitespace \cup {"N", "T", "C", "R", "D1", ",", "[", "]", "x", "D2a", "D2b"}

\* isinstance(v, dict), for a parsed value v ("L" is a list).
IsDict(v) == v \in {"T", "C", "R"} \cup DocTokens

\* The top-level keys of the object v, among the three of line 46.
Keys(v) ==
    CASE v = "T" -> {"config", "dataset_results"}
      [] v = "C" -> {"timestamp", "dataset_results"}
      [] v = "R" -> {"timestamp", "config"}
      [] v \in DocTokens -> {"timestamp", "config", "dataset_results"}
      [] OTHER -> {}

ParseFail == [ok |-> FALSE, next |-> 0, v |-> "none"]

\* JSON white space between tokens carries no meaning.
DropWhitespace(s) == SelectSeq(s, LAMBDA c : c \notin Whitespace)

\* The JSON grammar over tokens: a value starting at t[k], and the elements
\* of an array after its "[" or after a ",".  next is the position after
\* the value.
RECURSIVE ParseValue(_, _), ParseElems(_, _)
ParseValue(t, k) ==
    IF k > Len(t) THEN ParseFail
    ELSE IF t[k] \in AtomTokens THEN [ok |-> TRUE, next |-> k + 1, v |-> t[k]]
    ELSE IF t[k] = "D2a"
         THEN IF k + 1 <= Len(t) /\ t[k + 1] = "D2b"
              THEN [ok |-> TRUE, next |-> k + 2, v |-> "D2"]
              ELSE ParseFail
    ELSE IF t[k] = "["
         THEN IF k + 1 <= Len(t) /\ t[k + 1] = "]"
              THEN [ok |-> TRUE, next |-> k + 2, v |-> "L"]
              ELSE ParseElems(t, k + 1)
    ELSE ParseFail
ParseElems(t, k) ==
    LET e == ParseValue(t, k)
    IN  IF ~e.ok \/ e.next > Len(t) THEN ParseFail
        ELSE IF t[e.next] = "]" THEN [ok |-> TRUE, next |-> e.next + 1, v |-> "L"]
        ELSE IF t[e.next] = "," THEN ParseElems(t, e.next + 1)
        ELSE ParseFail

\* json.loads(s): exactly one value, with nothing but white space around.
JsonLoads(s) ==
    LET t == DropWhitespace(s)
        r == ParseValue(t, 1)
    IN  IF r.ok /\ r.next = Len(t) + 1 THEN [ok |-> TRUE, v |-> r.v]
        ELSE [ok |-> FALSE, v |-> "none"]

\* str.lstrip / str.rstrip / str.strip for the characters in cs.
RECURSIVE LStrip(_, _)
LStrip(s, cs) == IF s # <<>> /\ Head(s) \in cs THEN LStrip(Tail(s), cs) ELSE s

RECURSIVE RStrip(_, _)
RStrip(s, cs) ==
    IF s # <<>> /\ s[Len(s)] \in cs THEN RStrip(SubSeq(s, 1, Len(s) - 1), cs) ELSE s

Strip(s, cs) == LStrip(RStrip(s, cs), cs)

\* The tokens of s before its first occurrence of sep (all of s if none).
RECURSIVE UpTo(_, _)
UpTo(s, sep) ==
    IF s = <<>> \/ Head(s) = sep THEN <<>> ELSE <<Head(s)>> \o UpTo(Tail(s), sep)

\* str.splitlines: the lines of s; a final line break opens no new line.
RECURSIVE SplitLines(_)
SplitLines(s) ==
    IF s = <<>> THEN <<>>
    ELSE LET first == UpTo(s, "\n")
         IN  IF Len(first) = Len(s) THEN <<first>>
             ELSE <<first>> \o SplitLines(SubSeq(s, Len(first) + 2, Len(s)))

\* A line cleaned by line.strip() alone.
CleanLineKeepCommas(line) == Strip(line, Whitespace)

\* Line 36: line.strip().rstrip(",").
CleanLine(line) == RStrip(Strip(line, Whitespace), {","})

Unbound == [bound |-> FALSE, v |-> "none"]

\* Lines 35-43: the first line, from the k-th on, that json.loads accepts
\* once cleaned binds obj and ends the loop; when no line does, obj stays
\* unbound.
RECURSIVE LineLoop(_, _)
LineLoop(lines, k) ==
    IF k > Len(lines) THEN Unbound
    ELSE LET line == CleanLine(lines[k])
         IN  IF line = <<>> THEN LineLoop(lines, k + 1)
             ELSE IF JsonLoads(line).ok THEN [bound |-> TRUE, v |-> JsonLoads(line).v]
             ELSE LineLoop(lines, k + 1)

\* Lines 31-43: the binding of obj.
ObtainObj(raw) ==
    LET text == Strip(raw, Whitespace)
    IN  IF JsonLoads(text).ok THEN [bound |-> TRUE, v |-> JsonLoads(text).v]
        ELSE LineLoop(SplitLines(text), 1)

Raise(exc, msg) == [kind |-> "raise", exc |-> exc, msg |-> msg, v |-> "none"]
Return(v) == [kind |-> "return", exc |-> "none", msg |-> "none", v |-> v]

\* Lines 44-48, given the binding of obj.  Reading the unbound obj at
\* line 44 raises UnboundLocalError.
Validate(obj) ==
    IF ~obj.bound THEN Raise("UnboundLocalError", "none")
    ELSE IF ~IsDict(obj.v) THEN Raise("ValueError", "not a valid object")
    ELSE IF \/ "timestamp" \notin Keys(obj.v)
            \/ "config" \notin Keys(obj.v)
            \/ "dataset_results" \notin Keys(obj.v)
         THEN Raise("ValueError", "missing required fields")
    ELSE Return(obj.v)

\* Lines 31-48, on the text raw that lines 26-30 produced.
ReadTwinkleDoc(raw) == Validate(ObtainObj(raw))

Read ==
    /\ rd_pc = "start"
    /\ rd_out' = ReadTwinkleDoc(rd_text)
    /\ rd_pc' = "done"
    /\ UNCHANGED rd_text

InitRead ==
    /\ rd_text \in SeqsUpTo(TextAlphabet, MaxTextLen)
    /\ rd_pc = "start" /\ rd_out = NoOutcome
    /\ DecIdle /\ ExIdle /\ LdIdle

NextRead == Read /\ UNCHANGED <<decVars, exVars, ldVars>>

SpecRead == InitRead /\ [][NextRead]_vars

\* ----- extract_records (src/app.py 50-82) --------------------------------

\* A float: the exact fraction n/d in lowest terms, or NaN.  Accuracies are
\* written in hundredths (20 is 0.20).
Frac(n, d) == [fin |-> TRUE, n |-> n \div Gcd(n, d), d |-> d \div Gcd(n, d)]
NaN == [fin |-> FALSE, n |-> 0, d |-> 1]

\* float(x) of lines 73 and 77 for the JSON value x of accuracy_mean: a
\* number or a numeric string converts, the literal NaN is the float nan,
\* None raises TypeError, any other string raises ValueError.
ToFloat(x) ==
    CASE x.kind \in {"num", "numstr"} -> [ok |-> TRUE, f |-> Frac(x.v, 1), exc |-> "none"]
      [] x.kind = "nan" -> [ok |-> TRUE, f |-> NaN, exc |-> "none"]
      [] x.kind = "badstr" -> [ok |-> FALSE, f |-> NaN, exc |-> "ValueError"]
      [] OTHER -> [ok |-> FALSE, f |-> NaN, exc |-> "TypeError"]

\* np.mean of a non-empty list of floats, each a whole number of hundredths
\* or nan.
Mean(vals) ==
    IF \E k \in 1..Len(vals) : ~vals[k].fin THEN NaN
    ELSE Frac(SumSeq([k \in 1..Len(vals) |-> vals[k].n]), Len(vals))

\* The separator of line 57, "datasets/", as path tokens.
DatasetsPrefix == <<"datasets", "/">>

StartsWith(s, pre) == Len(s) >= Len(pre) /\ SubSeq(s, 1, Len(pre)) = pre

\* s.split(sep)[-1]: what follows the last occurrence of sep in s (all of s
\* when sep does not occur).
AfterLast(s, sep) ==
    LET at == {k \in 1..(Len(s) - Len(sep) + 1) : SubSeq(s, k, k + Len(sep) - 1) = sep}
    IN  IF at = {} THEN s
        ELSE LET last == CHOOSE k \in at : \A j \in at : j <= k
             IN  SubSeq(s, last + Len(sep), Len(s))

\* Line 57.
DsName(ds_path) ==
    IF StartsWith(ds_path, DatasetsPrefix)
    THEN Strip(AfterLast(ds_path, DatasetsPrefix), {"/"})
    ELSE ds_path

\* The "/"-separated components of a path, empty ones included.
RECURSIVE SplitSlash(_)
SplitSlash(s) ==
    LET first == UpTo(s, "/")
    IN  IF Len(first) = Len(s) THEN <<first>>
        ELSE <<first>> \o SplitSlash(SubSeq(s, Len(first) + 2, Len(s)))

\* PurePosixPath(p).name (line 67): the last component that is neither
\* empty nor ".", or the empty string when there is none.
PathName(p) ==
    LET parts == SelectSeq(SplitSlash(p), LAMBDA c : c # <<>> /\ c # <<".">>)
    IN  IF parts = <<>> THEN <<>> ELSE parts[Len(parts)]

\* fname.rsplit(".", 1)[0] (line 68): what precedes the last "." of fname
\* (all of fname when it has none).
Category(fname) ==
    LET dots == {k \in 1..Len(fname) : fname[k] = "."}
    IN  IF dots = {} THEN fname
        ELSE SubSeq(fname, 1, (CHOOSE k \in dots : \A j \in dots : j <= k) - 1)

\* Lines 51-53: the source label, <<model name, timestamp>>.  A config or
\* a config.model that is no dict has no .get: AttributeError.
SourceLabel(doc) ==
    CASE doc.config.kind \in {"notdict", "modelnotdict"} ->
            [ok |-> FALSE, label |-> <<>>, exc |-> "AttributeError"]
      [] doc.config.kind = "name" ->
            [ok |-> TRUE, label |-> <<doc.config.name, doc.timestamp>>, exc |-> "none"]
      [] OTHER ->
            [ok |-> TRUE, label |-> <<"<unknown>", doc.timestamp>>, exc |-> "none"]

\* item.get(key) is None: the key is absent or holds null.
IsNone(x) == x.kind \in {"absent", "null"}

\* Lines 60-75 from the k-th item on: the rows appended, or the exception
\* that leaves the loop.
RECURSIVE ResultRows(_, _, _, _)
ResultRows(items, k, ds_name, label) ==
    IF k > Len(items) THEN [ok |-> TRUE, rows |-> <<>>, exc |-> "none"]
    ELSE LET item == items[k]
             rest == ResultRows(items, k + 1, ds_name, label)
         IN  IF item.kind # "dict" THEN rest
             ELSE IF IsNone(item.file) \/ IsNone(item.acc) THEN rest
             ELSE IF item.file.kind # "str"
                  THEN [ok |-> FALSE, rows |-> <<>>, exc |-> "TypeError"]
             ELSE IF ~ToFloat(item.acc).ok
                  THEN [ok |-> FALSE, rows |-> <<>>, exc |-> ToFloat(item.acc).exc]
             ELSE IF ~rest.ok THEN rest
             ELSE [ok |-> TRUE, exc |-> "none",
                   rows |-> <<[dataset |-> ds_name,
                               category |-> Category(PathName(item.file.path)),
                               file |-> PathName(item.file.path),
                               accuracy_mean |-> ToFloat(item.acc).f,
                               source_label |-> label]>> \o rest.rows]

\* Line 77 from the k-th item on: "accuracy_mean" in it raises TypeError on
\* a number, is False on a list, and on a dict tells whether the key is
\* there; float() of a null or of a non-numeric string raises.
RECURSIVE AvgVals(_, _)
AvgVals(items, k) ==
    IF k > Len(items) THEN [ok |-> TRUE, vals |-> <<>>, exc |-> "none"]
    ELSE LET it == items[k]
             rest == AvgVals(items, k + 1)
         IN  IF it.kind = "num" THEN [ok |-> FALSE, vals |-> <<>>, exc |-> "TypeError"]
             ELSE IF it.kind = "list" \/ it.acc.kind = "absent" THEN rest
             ELSE IF ~ToFloat(it.acc).ok
                  THEN [ok |-> FALSE, vals |-> <<>>, exc |-> ToFloat(it.acc).exc]
             ELSE IF ~rest.ok THEN rest
             ELSE [ok |-> TRUE, vals |-> <<ToFloat(it.acc).f>> \o rest.vals, exc |-> "none"]

\* Line 58: the declared average; None when the payload is no dict, or the
\* key is absent or null.
AvgMeta(payload) ==
    IF payload.kind = "dict" /\ payload.avg.kind = "num"
    THEN [none |-> FALSE, f |-> Frac(payload.avg.v, 1)]
    ELSE [none |-> TRUE, f |-> NaN]

\* Line 59: the results; the default [] when the payload is no dict or has
\* no such key.
Results(payload) ==
    IF payload.kind = "dict" /\ payload.results.kind # "absent"
    THEN payload.results
    ELSE [kind |-> "list", items |-> <<>>]

\* avg_map[ds_name] = avg (line 81).
SetKey(map, key, val) == [x \in DOMAIN map \cup {key} |-> IF x = key THEN val ELSE map[x]]

EmptyMap == [x \in {} |-> NaN]

ExRaise(exc) == [kind |-> "raise", exc |-> exc, rows |-> <<>>, avg_map |-> EmptyMap]

\* Lines 56-81 from the k-th dataset on.  Iterating results that are no
\* sequence raises TypeError (line 60).
RECURSIVE DatasetLoop(_, _, _, _, _)
DatasetLoop(items, k, rows, avg_map, label) ==
    IF k > Len(items)
    THEN [kind |-> "return", exc |-> "none", rows |-> rows, avg_map |-> avg_map]
    ELSE LET ds_name == DsName(items[k].path)
             avg_meta == AvgMeta(items[k].payload)
             results == Results(items[k].payload)
             new == ResultRows(results.items, 1, ds_name, label)
             vals == AvgVals(results.items, 1)
         IN  IF results.kind # "list" THEN ExRaise("TypeError")
             ELSE IF ~new.ok THEN ExRaise(new.exc)
             ELSE IF avg_meta.none /\ results.items # <<>>
                  THEN IF ~vals.ok THEN ExRaise(vals.exc)
                       ELSE IF vals.vals # <<>>
                            THEN DatasetLoop(items, k + 1, rows \o new.rows,
                                             SetKey(avg_map, ds_name, Mean(vals.vals)), label)
                            ELSE DatasetLoop(items, k + 1, rows \o new.rows, avg_map, label)
             ELSE IF ~avg_meta.none
                  THEN DatasetLoop(items, k + 1, rows \o new.rows,
                                   SetKey(avg_map, ds_name, avg_meta.f), label)
             ELSE DatasetLoop(items, k + 1, rows \o new.rows, avg_map, label)

\* Lines 50-82.  A dataset_results that is no dict has no .items:
\* AttributeError (line 56).
ExtractRecords(doc) ==
    IF ~SourceLabel(doc).ok THEN ExRaise(SourceLabel(doc).exc)
    ELSE IF doc.dataset_results.kind # "dict" THEN ExRaise("AttributeError")
    ELSE DatasetLoop(doc.dataset_results.items, 1, <<>>, EmptyMap, SourceLabel(doc).label)

\* --- the documents extract_records is applied to

\* Largest length, in tokens, of a dataset path or a file path.
MaxPathLen == 4

\* Largest length of a results list.
MaxResults == 2

Absent == [kind |-> "absent", v |-> 0]
Num(v) == [kind |-> "num", v |-> v]

\* JSON values of accuracy_mean: the key missing, null, two numbers, a
\* numeric string, a non-numeric string, the literal NaN.
AccVals ==
    {Absent, [kind |-> "null", v |-> 0], Num(20), Num(60),
     [kind |-> "numstr", v |-> 40], [kind |-> "badstr", v |-> 0], [kind |-> "nan", v |-> 0]}

StrPath(p) == [kind |-> "str", path |-> p]
NoFile == [kind |-> "absent", path |-> <<>>]

\* JSON values of file: the key missing (or null), a number, two paths.
FileVals ==
    {NoFile, [kind |-> "num", path |-> <<>>],
     StrPath(<<"a", ".", "json">>), StrPath(<<"a", "/", "b", ".", "json">>)}

DictEntry(file, acc) == [kind |-> "dict", file |-> file, acc |-> acc]

\* The members of a results list: mappings, and a list and a number as the
\* entries that are no mapping.
Entries ==
    {DictEntry(f, a) : f \in FileVals, a \in AccVals}
        \cup {[kind |-> k, file |-> NoFile, acc |-> Absent] : k \in {"list", "num"}}

ResultList(items) == [kind |-> "list", items |-> items]
NoResults == [kind |-> "absent", items |-> <<>>]

\* JSON values of results: the key missing, a value that cannot be iterated
\* (a number, null), lists of at most n entries.
ResultVals(n) ==
    {NoResults, [kind |-> "notiterable", items |-> <<>>]}
        \cup {ResultList(r) : r \in SeqsUpTo(Entries, n)}

Payload(avg, results) == [kind |-> "dict", avg |-> avg, results |-> results]
NotDictPayload == [kind |-> "notdict", avg |-> Absent, results |-> NoResults]

\* The payloads whose results hold at most n entries.
Payloads(n) ==
    {Payload(a, r) : a \in {Absent, Num(90)}, r \in ResultVals(n)} \cup {NotDictPayload}

\* A small set of payloads for the documents that hold two datasets.
GoodEntry(v) == DictEntry(StrPath(<<"a", ".", "json">>), Num(v))
FewPayloads ==
    {Payload(a, r) : a \in {Absent, Num(90)},
                     r \in {NoResults, ResultList(<<GoodEntry(20)>>),
                            ResultList(<<DictEntry(NoFile, Num(60))>>)}}
        \cup {NotDictPayload}

Config(kind, name) == [kind |-> kind, name |-> name]

\* JSON values of config: no dict; a dict without model; model no dict;
\* model without name; model.name given.
Configs ==
    {Config("notdict", ""), Config("nomodel", ""), Config("modelnotdict", ""),
     Config("noname", ""), Config("name", "m1"), Config("name", "m2")}

Dataset(path, payload) == [path |-> path, payload |-> payload]
DatasetResults(items) == [kind |-> "dict", items |-> items]
Doc(ts, config, dr) == [timestamp |-> ts, config |-> config, dataset_results |-> dr]

\* Dataset paths and file paths of at most n tokens.
DsPaths(n) == SeqsUpTo({"datasets", "/", "a"}, n)
FilePaths(n) == SeqsUpTo({"/", ".", "a", "json"}, n)

PathA == <<"datasets", "/", "a">>

\* The inputs of SpecExtract, for paths of at most maxPath tokens and
\* results of at most maxResults entries: every dataset path and every file
\* path with one good entry; every payload under one dataset; every config;
\* two datasets whose names may coincide; a dataset_results that is no dict.
ExtractDocs(maxPath, maxResults) ==
    {Doc("t1", Config("name", "m1"),
         DatasetResults(<<Dataset(p, Payload(Absent, ResultList(<<GoodEntry(20)>>)))>>))
        : p \in DsPaths(maxPath)}
    \cup
    {Doc("t1", Config("name", "m1"),
         DatasetResults(<<Dataset(PathA,
            Payload(Absent, ResultList(<<DictEntry(StrPath(f), Num(20))>>)))>>))
        : f \in FilePaths(maxPath)}
    \cup
    {Doc("t1", Config("name", "m1"), DatasetResults(<<Dataset(PathA, pl)>>)) : pl \in Payloads(maxResults)}
    \cup
    {Doc("t2", c, DatasetResults(<<Dataset(PathA, pl)>>)) : c \in Configs, pl \in FewPayloads}
    \cup
    {Doc("t1", Config("name", "m1"), DatasetResults(<<Dataset(p1, pl1), Dataset(p2, pl2)>>))
        : p1 \in {PathA}, p2 \in {<<"a">>, <<"b">>}, pl1 \in FewPayloads, pl2 \in FewPayloads}
    \cup
    {Doc("t1", Config("name", "m1"), [kind |-> "notdict", items |-> <<>>])}

Extract ==
    /\ ex_pc = "start"
    /\ ex_out' = ExtractRecords(ex_doc)
    /\ ex_pc' = "done"
    /\ UNCHANGED ex_doc

InitExtract ==
    /\ ex_doc \in ExtractDocs(MaxPathLen, MaxResults)
    /\ ex_pc = "start" /\ ex_out = NoOutcome
    /\ DecIdle /\ RdIdle /\ LdIdle

NextExtract == Extract /\ UNCHANGED <<decVars, rdVars, ldVars>>

SpecExtract == InitExtract /\ [][NextExtract]_vars

\* ----- load_all (src/app.py 84-100) --------------------------------------

\* Largest number of files in a batch.
MaxFiles == 3

\* The content of each complete document.  D1 and D2 carry the same source
\* label and different averages; D3 has another label and two records; D4
\* declares an average and has no record; D5 passes read_twinkle_doc and
\* has results that cannot be iterated.
DocOf(tok) ==
    CASE tok = "D1" ->
            Doc("t1", Config("name", "m1"),
                DatasetResults(<<Dataset(PathA, Payload(Absent, ResultList(<<GoodEntry(20)>>)))>>))
      [] tok = "D2" ->
            Doc("t1", Config("name", "m1"),
                DatasetResults(<<Dataset(<<"a">>, Payload(Num(90), ResultList(<<GoodEntry(60)>>)))>>))
      [] tok = "D3" ->
            Doc("t1", Config("name", "m2"),
                DatasetResults(<<Dataset(PathA,
                    Payload(Absent, ResultList(<<GoodEntry(20), GoodEntry(60)>>)))>>))
      [] tok = "D4" ->
            Doc("t1", Config("name", "m1"),
                DatasetResults(<<Dataset(PathA, Payload(Num(90), NoResults))>>))
      [] tok = "D5" ->
            Doc("t1", Config("name", "m2"),
                DatasetResults(<<Dataset(PathA,
                    Payload(Absent, [kind |-> "notiterable", items |-> <<>>]))>>))

\* An uploaded file: its display name, and the text read_twinkle_doc has
\* of it after lines 26-30 (file.read(), decoded when it is bytes).
File(name, text) == [name |-> name, text |-> text]

\* The uploaded files a batch is drawn from: each document alone in a
\* file (D2 over two lines), a file of garbage, a file whose object lacks
\* a field, a file whose second line is the document D1 followed by a
\* comma, and a file that shares its name with another and holds null.
FileSet ==
    {File("f1", <<"D1">>), File("f2", <<"D2a", "\n", "D2b">>), File("f3", <<"D3">>),
     File("f4", <<"D4">>), File("f5", <<"D5">>), File("f6", <<"x">>),
     File("f7", <<"T">>), File("f8", <<"x", "\n", "D1", ",">>), File("f6", <<"N">>)}

\* Line 90: whether "except Exception" catches exc.
LoadCatches(exc) == exc \in ExceptionClasses

\* meta.setdefault(src, avg_map): the first document of a label is kept.
MetaUpdateKeepFirst(m, rows, avg_map) ==
    IF rows[1].source_label \in DOMAIN m THEN m
    ELSE [x \in DOMAIN m \cup {rows[1].source_label} |->
            IF x = rows[1].source_label THEN avg_map ELSE m[x]]

\* meta = {src: avg_map}: the dict is rebuilt for every document.
MetaUpdateReset(m, rows, avg_map) == [x \in {rows[1].source_label} |-> avg_map]

\* Lines 96-97: meta after a document whose DataFrame holds rows.
MetaUpdate(m, rows, avg_map) == SetKey(m, rows[1].source_label, avg_map)

\* The file the loop is at, and what lines 89 and 93 make of it.
CurFile == files[ld_i]
CurRead == ReadTwinkleDoc(CurFile.text)
CurExtract == ExtractRecords(DocOf(CurRead.v))

AtFile == ld_pc = "loop" /\ ld_i <= Len(files)

\* Lines 88-92: read_twinkle_doc raises; report the file and go on.  An
\* exception the handler does not catch leaves load_all.
LoadReadFails ==
    /\ AtFile
    /\ CurRead.kind = "raise"
    /\ IF LoadCatches(CurRead.exc)
       THEN /\ diags' = Append(diags, CurFile.name)
            /\ ld_i' = ld_i + 1
            /\ ld_pc' = "loop"
       ELSE /\ ld_pc' = "raised"
            /\ UNCHANGED <<diags, ld_i>>
    /\ UNCHANGED <<files, frames, meta, ld_ret>>

\* Line 93: extract_records raises; nothing catches it.
LoadExtractRaises ==
    /\ AtFile
    /\ CurRead.kind = "return"
    /\ CurExtract.kind = "raise"
    /\ ld_pc' = "raised"
    /\ UNCHANGED <<files, ld_i, frames, meta, diags, ld_ret>>

\* Lines 93-94: the DataFrame is empty; nothing is kept of the document.
LoadEmpty ==
    /\ AtFile
    /\ CurRead.kind = "return"
    /\ CurExtract.kind = "return"
    /\ CurExtract.rows = <<>>
    /\ ld_i' = ld_i + 1
    /\ UNCHANGED <<files, ld_pc, frames, meta, diags, ld_ret>>

\* Lines 93-97: the DataFrame holds rows.
LoadAppend ==
    /\ AtFile
    /\ CurRead.kind = "return"
    /\ CurExtract.kind = "return"
    /\ CurExtract.rows # <<>>
    /\ frames' = Append(frames, CurExtract.rows)
    /\ meta' = MetaUpdate(meta, CurExtract.rows, CurExtract.avg_map)
    /\ ld_i' = ld_i + 1
    /\ UNCHANGED <<files, ld_pc, diags, ld_ret>>

\* Lines 98-100: the empty table and {} when no frame was kept, else the
\* concatenation of the frames and meta.
LoadReturn ==
    /\ ld_pc = "loop" /\ ld_i = Len(files) + 1
    /\ ld_ret' = IF frames = <<>>
                 THEN [kind |-> "return", rows |-> <<>>, meta |-> EmptyMap]
                 ELSE [kind |-> "return", rows |-> Flatten(frames), meta |-> meta]
    /\ ld_pc' = "returned"
    /\ UNCHANGED <<files, ld_i, frames, meta, diags>>

InitLoad ==
    /\ files \in SeqsUpTo(FileSet, MaxFiles)
    /\ ld_i = 1 /\ ld_pc = "loop"
    /\ frames = <<>> /\ meta = EmptyMap /\ diags = <<>> /\ ld_ret = NoOutcome
    /\ DecIdle /\ RdIdle /\ ExIdle

NextLoad ==
    \/ LoadReadFails /\ UNCHANGED <<decVars, rdVars, exVars>>
    \/ LoadExtractRaises /\ UNCHANGED <<decVars, rdVars, exVars>>
    \/ LoadEmpty /\ UNCHANGED <<decVars, rdVars, exVars>>
    \/ LoadAppend /\ UNCHANGED <<decVars, rdVars, exVars>>
    \/ LoadReturn /\ UNCHANGED <<decVars, rdVars, exVars>>

SpecLoad == InitLoad /\ [][NextLoad]_vars

\* ===== Properties ========================================================

\* ----- _decode_bytes_to_text, under SpecDecode ---------------------------

C9Order == <<"utf-8", "utf-16", "utf-16le", "utf-16be", "big5", "cp950">>

\* The encodings of C9Order, by position, that decode b.
C9Decodable(b) == {k \in 1..Len(C9Order) : BytesDecode(b, C9Order[k]).ok}

\* C9: _decode_bytes_to_text never raises and never runs past its fallback;
\* what it returns is the decode of b under the first encoding, in the
\* order utf-8, utf-16, utf-16le, utf-16be, big5, cp950, that decodes b,
\* and the UTF-8 decode that drops the undecodable bytes when none does.
C9_DecodeTotalFirstSuccess ==
    /\ dec_pc \in {"loop", "returned"}
    /\ dec_i \in 1..(Len(C9Order) + 1)
    /\ dec_pc = "returned" =>
        IF C9Decodable(dec_b) = {}
        THEN dec_ret = BytesDecodeIgnore(dec_b)
        ELSE LET first == CHOOSE k \in C9Decodable(dec_b) :
                              \A j \in C9Decodable(dec_b) : k <= j
             IN  dec_ret = BytesDecode(dec_b, C9Order[first]).out

\* Every encoding has failed on b, and the lossy decode kept some of it.
C9_Witness ==
    /\ dec_pc = "returned"
    /\ C9Decodable(dec_b) = {}
    /\ dec_ret # <<>>
    /\ Len(dec_ret) < Len(dec_b)

\* ----- read_twinkle_doc, under SpecRead ----------------------------------

\* A line stripped of white space and of one trailing comma.
StripOneComma(line) ==
    LET t == Strip(line, Whitespace)
    IN  IF t # <<>> /\ t[Len(t)] = "," THEN SubSeq(t, 1, Len(t) - 1) ELSE t

\* A line stripped of white space and then of all its trailing commas.
StripAllCommas(line) ==
    LET t == Strip(line, Whitespace)
        kept == {n \in 0..Len(t) : \A k \in (n + 1)..Len(t) : t[k] = ","}
    IN  SubSeq(t, 1, CHOOSE n \in kept : \A m \in kept : n <= m)

\* The lines of a text: the maximal runs without a line break.
LinesOf(text) ==
    LET breaks == {k \in 1..Len(text) : text[k] = "\n"}
        starts == {1} \cup {k + 1 : k \in breaks}
        EndOf(b) == CHOOSE e \in (breaks \cup {Len(text) + 1}) :
                        e >= b /\ \A k \in b..(e - 1) : text[k] # "\n"
    IN  {<<b, EndOf(b) - 1>> : b \in starts}

\* The value the claim says is used, for a given cleaning of the lines:
\* that of the whole trimmed text if it parses, else that of the first
\* line that is not blank once cleaned and parses; none otherwise.
ClaimedObj(raw, Clean(_)) ==
    LET text == Strip(raw, Whitespace)
        good == {l \in LinesOf(text) :
                    /\ Clean(SubSeq(text, l[1], l[2])) # <<>>
                    /\ JsonLoads(Clean(SubSeq(text, l[1], l[2]))).ok}
    IN  IF JsonLoads(text).ok THEN [bound |-> TRUE, v |-> JsonLoads(text).v]
        ELSE IF good = {} THEN Unbound
        ELSE LET l == CHOOSE g \in good : \A h \in good : g[1] <= h[1]
             IN  [bound |-> TRUE, v |-> JsonLoads(Clean(SubSeq(text, l[1], l[2]))).v]

\* The text cut after the first line the recovery accepts (the text itself
\* when the whole text parses or no line does).
CutAfterFirstGood(raw) ==
    LET text == Strip(raw, Whitespace)
        good == {l \in LinesOf(text) :
                    /\ StripAllCommas(SubSeq(text, l[1], l[2])) # <<>>
                    /\ JsonLoads(StripAllCommas(SubSeq(text, l[1], l[2]))).ok}
    IN  IF JsonLoads(text).ok \/ good = {} THEN text
        ELSE SubSeq(text, 1, (CHOOSE g \in good : \A h \in good : g[1] <= h[1])[2])

\* C7 as stated: the value used is that of the whole trimmed text when it
\* parses, else that of the first non-blank line that parses after
\* stripping white space and a single trailing comma.
C7_SingleCommaOriginal ==
    rd_pc = "done" => rd_out = Validate(ClaimedObj(rd_text, StripOneComma))

\* C7, amended: the value used is that of the whole trimmed text when it
\* parses, else that of the first non-blank line that parses after
\* stripping white space and then all trailing commas; the lines after
\* that one do not affect the result.
C7_FirstParsedLine ==
    rd_pc = "done" =>
        /\ rd_out = Validate(ClaimedObj(rd_text, StripAllCommas))
        /\ rd_out = ReadTwinkleDoc(CutAfterFirstGood(rd_text))

\* The first line is a document, the second is garbage, and the document
\* of the first line is returned.
C7_Witness ==
    /\ rd_pc = "done"
    /\ rd_text = <<"D1", ",", "\n", "x">>
    /\ rd_out = Return("D1")

\* Whether the whole text or any of its lines yields a structured value.
YieldsValue(raw) == ClaimedObj(raw, StripAllCommas).bound

\* C4: read_twinkle_doc ends in one of three ways: ValueError "not a valid
\* object" when neither the whole text nor any line yields a value or the
\* value is no mapping; ValueError "missing required fields" when the
\* mapping lacks timestamp, config or dataset_results; else the mapping is
\* returned.  No other error type is raised.
C4_ThreeOutcomes ==
    rd_pc = "done" =>
        LET obj == ClaimedObj(rd_text, StripAllCommas)
        IN  IF ~YieldsValue(rd_text) \/ ~IsDict(obj.v)
            THEN rd_out = Raise("ValueError", "not a valid object")
            ELSE IF {"timestamp", "config", "dataset_results"} \subseteq Keys(obj.v)
            THEN rd_out = Return(obj.v)
            ELSE rd_out = Raise("ValueError", "missing required fields")

\* ----- extract_records, under SpecExtract --------------------------------

\* The document is as the wire contract has it but for its accuracy_mean
\* values: config and dataset_results are mappings, every payload is a
\* mapping whose results are a list of mappings whose file is a path or is
\* missing.
OnlyAccuracyVaries(doc) ==
    /\ doc.config.kind \notin {"notdict", "modelnotdict"}
    /\ doc.dataset_results.kind = "dict"
    /\ \A k \in 1..Len(doc.dataset_results.items) :
        LET pl == doc.dataset_results.items[k].payload
        IN  /\ pl.kind = "dict"
            /\ pl.results.kind \in {"absent", "list"}
            /\ \A e \in 1..Len(pl.results.items) :
                /\ pl.results.items[e].kind = "dict"
                /\ pl.results.items[e].file.kind \in {"absent", "str"}

\* The entries of the document that have a file and an accuracy_mean that
\* is a number or a numeric string.
CoercibleEntries(doc) ==
    {<<k, e>> \in (1..Len(doc.dataset_results.items)) \X (1..MaxResults) :
        /\ e <= Len(doc.dataset_results.items[k].payload.results.items)
        /\ doc.dataset_results.items[k].payload.results.items[e].file.kind = "str"
        /\ doc.dataset_results.items[k].payload.results.items[e].acc.kind \in {"num", "numstr"}}

\* C3: extract_records returns, every record it emits has a finite
\* accuracy_mean, and an entry whose accuracy_mean cannot be coerced is
\* skipped while the other entries still yield their records.
C3_FiniteOrSkipped ==
    (ex_pc = "done" /\ OnlyAccuracyVaries(ex_doc)) =>
        /\ ex_out.kind = "return"
        /\ \A k \in 1..Len(ex_out.rows) : ex_out.rows[k].accuracy_mean.fin
        /\ Len(ex_out.rows) = Cardinality(CoercibleEntries(ex_doc))

\* The accuracy_mean values of the records emitted for the dataset name.
RetainedVals(rows, name) ==
    LET kept == SelectSeq(rows, LAMBDA r : r.dataset = name)
    IN  [k \in 1..Len(kept) |-> kept[k].accuracy_mean]

\* C5: per dataset, the average-map entry is the declared average_accuracy
\* when there is one; without one it is the mean of the accuracy_mean of
\* exactly the entries emitted as records, and there is no entry when no
\* record was emitted.  (Stated for documents whose dataset names differ
\* and on which extract_records returns.)
C5_AverageOfRetained ==
    (/\ ex_pc = "done"
     /\ ex_out.kind = "return"
     /\ \A j, k \in 1..Len(ex_doc.dataset_results.items) :
            j # k => DsName(ex_doc.dataset_results.items[j].path)
                        # DsName(ex_doc.dataset_results.items[k].path)) =>
        \A k \in 1..Len(ex_doc.dataset_results.items) :
            LET name == DsName(ex_doc.dataset_results.items[k].path)
                pl == ex_doc.dataset_results.items[k].payload
                vals == RetainedVals(ex_out.rows, name)
            IN  IF pl.kind = "dict" /\ pl.avg.kind = "num"
                THEN name \in DOMAIN ex_out.avg_map
                        /\ ex_out.avg_map[name] = Frac(pl.avg.v, 1)
                ELSE IF vals # <<>>
                THEN name \in DOMAIN ex_out.avg_map /\ ex_out.avg_map[name] = Mean(vals)
                ELSE name \notin DOMAIN ex_out.avg_map

\* The dataset path without its leading "datasets/" and without the
\* slashes around what is left; the raw path when it does not start so.
ClaimedDataset(path) ==
    IF Len(path) >= 2 /\ path[1] = "datasets" /\ path[2] = "/"
    THEN Strip(SubSeq(path, 3, Len(path)), {"/"})
    ELSE path

\* name is the base name of path in the sense of pathlib: the last of the
\* "/"-separated components that is neither empty nor ".".
IsBaseName(name, path) ==
    LET comps == {k \in 1..Len(SplitSlash(path)) :
                    SplitSlash(path)[k] # <<>> /\ SplitSlash(path)[k] # <<".">>}
    IN  IF comps = {} THEN name = <<>>
        ELSE \E k \in comps : (\A j \in comps : j <= k) /\ name = SplitSlash(path)[k]

\* stem is name without its final extension: name is stem, a ".", and an
\* extension without a "."; or name has no "." and is the stem.
IsStem(stem, name) ==
    \/ (\A k \in 1..Len(name) : name[k] # ".") /\ stem = name
    \/ \E k \in 1..Len(name) :
        /\ name[k] = "."
        /\ \A j \in (k + 1)..Len(name) : name[j] # "."
        /\ stem = SubSeq(name, 1, k - 1)

\* C6: the record of an entry has dataset = the dataset path without its
\* leading datasets/ and surrounding slashes (the raw path when it does not
\* start with datasets/), file = the base name of the entry's file path,
\* category = that base name without its final extension.  (Stated for the
\* documents of one dataset and one entry that yield one record.)
C6_DatasetFileCategory ==
    (/\ ex_pc = "done"
     /\ ex_out.kind = "return"
     /\ Len(ex_out.rows) = 1
     /\ Len(ex_doc.dataset_results.items) = 1
     /\ Len(ex_doc.dataset_results.items[1].payload.results.items) = 1) =>
        LET row == ex_out.rows[1]
            path == ex_doc.dataset_results.items[1].path
            entry == ex_doc.dataset_results.items[1].payload.results.items[1]
        IN  /\ row.dataset = ClaimedDataset(path)
            /\ IsBaseName(row.file, entry.file.path)
            /\ IsStem(row.category, row.file)

\* The file and category parts of C6 alone hold: the dataset part is the
\* one that fails.
C6_FileCategoryOnly ==
    (/\ ex_pc = "done"
     /\ ex_out.kind = "return"
     /\ Len(ex_out.rows) = 1
     /\ Len(ex_doc.dataset_results.items) = 1
     /\ Len(ex_doc.dataset_results.items[1].payload.results.items) = 1) =>
        /\ IsBaseName(ex_out.rows[1].file,
                      ex_doc.dataset_results.items[1].payload.results.items[1].file.path)
        /\ IsStem(ex_out.rows[1].category, ex_out.rows[1].file)

\* ----- load_all, under SpecLoad ------------------------------------------

\* What read_twinkle_doc and extract_records make of the k-th file.
ReadOf(k) == ReadTwinkleDoc(files[k].text)
ExtractOf(k) == ExtractRecords(DocOf(ReadOf(k).v))
LabelOf(k) == SourceLabel(DocOf(ReadOf(k).v)).label

Parsed(k) == ReadOf(k).kind = "return"

\* The records of the k-th file: none when it did not parse.
RecordsOf(k) ==
    IF Parsed(k) /\ ExtractOf(k).kind = "return" THEN ExtractOf(k).rows ELSE <<>>

\* The files the loop has dealt with.
Handled == 1..(ld_i - 1)

\* The handled files whose document yields at least one record.
Writers == {k \in Handled : RecordsOf(k) # <<>>}

\* The names of the files among the first n that did not parse, in order.
RECURSIVE FailedNames(_)
FailedNames(n) ==
    IF n = 0 THEN <<>>
    ELSE IF Parsed(n) THEN FailedNames(n - 1)
    ELSE Append(FailedNames(n - 1), files[n].name)

\* The records of the first n files, in order.
RECURSIVE RecordsUpTo(_)
RecordsUpTo(n) == IF n = 0 THEN <<>> ELSE RecordsUpTo(n - 1) \o RecordsOf(n)

\* C1: for every batch load_all visits every file in order and returns:
\* there is exactly one diagnostic, naming the file, for each file whose
\* read_twinkle_doc fails, and the returned Corpus is the concatenation, in
\* arrival order, of the records of the files that parsed.
C1_EveryFileVisited ==
    ld_pc \in {"returned", "raised"} =>
        /\ ld_pc = "returned"
        /\ ld_i = Len(files) + 1
        /\ diags = FailedNames(Len(files))
        /\ ld_ret.rows = RecordsUpTo(Len(files))

\* C2: load_all never raises to its caller, whatever the batch.
C2_NeverRaises == ld_pc # "raised"

\* C8: a parsed document that yields no record adds nothing to meta; one
\* that yields records stores its average map under its source label, and
\* of several documents with one label the last that stored one wins,
\* while the records of all of them are kept; the returned pair is that
\* Corpus and that map.
C8_LastWriteWins ==
    /\ ld_pc \in {"loop", "returned", "raised"}
    /\ DOMAIN meta = {LabelOf(k) : k \in Writers}
    /\ \A k \in Writers :
        (\A j \in Writers : LabelOf(j) = LabelOf(k) => j <= k)
            => meta[LabelOf(k)] = ExtractOf(k).avg_map
    /\ Flatten(frames) = RecordsUpTo(ld_i - 1)
    /\ ld_pc = "returned" =>
        /\ ld_ret.rows = Flatten(frames)
        /\ DOMAIN ld_ret.meta = DOMAIN meta
        /\ \A l \in DOMAIN meta : ld_ret.meta[l] = meta[l]

\* A batch was returned in which two documents with records share a label
\* and differ in their averages, and a third parsed, declares an average
\* and has no record.
C8_Witness ==
    /\ ld_pc = "returned"
    /\ \E i, j, k \in 1..Len(files) :
        /\ i < j
        /\ RecordsOf(i) # <<>> /\ RecordsOf(j) # <<>>
        /\ LabelOf(i) = LabelOf(j)
        /\ ExtractOf(i).avg_map # ExtractOf(j).avg_map
        /\ ld_ret.meta[LabelOf(j)] = ExtractOf(j).avg_map
        /\ Parsed(k) /\ ExtractOf(k).kind = "return"
        /\ ExtractOf(k).rows = <<>>
        /\ DOMAIN ExtractOf(k).avg_map # {}

\* The source labels that occur in a sequence of records.
LabelsIn(rows) == {rows[k].source_label : k \in 1..Len(rows)}

\* C10: after each file, and in the returned pair, the keys of the
\* combined average map are exactly the source labels of the accumulated
\* records.
C10_KeysAreRecordLabels ==
    /\ DOMAIN meta = LabelsIn(Flatten(frames))
    /\ ld_pc = "returned" => DOMAIN ld_ret.meta = LabelsIn(ld_ret.rows)

\* A batch was returned with records of two labels and a document that
\* declares an average and has no record.
C10_Witness ==
    /\ ld_pc = "returned"
    /\ Cardinality(LabelsIn(ld_ret.rows)) = 2
    /\ Cardinality(DOMAIN ld_ret.meta) = 2
    /\ \E k \in 1..Len(files) :
        Parsed(k) /\ RecordsOf(k) = <<>> /\ DOMAIN ExtractOf(k).avg_map # {}

=============================================================================
